---- MODULE Spec2Model ----
(***************************************************************************)
(* CityFix-Municipal: incident lifecycle and duplicate-resolution engine.  *)
(*                                                                         *)
(* The store is the hosted document collection `reports`; the staff        *)
(* console reads and writes it from three pages (incident list, incident   *)
(* detail, smart-merge dashboard).  Times are whole hours since an epoch;  *)
(* a latitude is a distance in metres north along one meridian (on which   *)
(* the haversine distance is the difference), 0 standing for "no           *)
(* coordinates" exactly as the code's falsy tests treat it.                *)
(***************************************************************************)
EXTENDS Integers, Sequences, FiniteSets, TLC

VARIABLES
    reports,            \* the `reports` collection: id -> document
    now,                \* wall clock (hours)
    page,               \* page the staff session has open
    incident,           \* IncidentDetail: `incident` state (NoIncident = null)
    pendingSeverity,    \* IncidentDetail: `pendingSeverity`
    showSeverityModal,  \* IncidentDetail: `showSeverityModal`
    candidates,         \* SmartMergeAlert: `candidates` (id -> snapshot)
    isVisible,          \* SmartMergeAlert: `isVisible`
    groups,             \* DuplicateDetection: `groups`
    relatedReports,     \* RelatedReports: `relatedReports` (ids)
    currentReport,      \* RelatedReports: `currentReport` (loaded or not)
    opened,             \* incidents this session has opened on the detail page
    failures,           \* writes the store has failed so far
    lastOp,             \* outcome of the last handler that ran
    reporters,          \* the `reporter` collection: id -> document
    call,               \* utility call under examination: arguments, result
    peer                \* a second staff session: its detail page

vars == <<reports, now, page, incident, pendingSeverity, showSeverityModal,
          candidates, isVisible, groups, relatedReports, currentReport,
          opened, failures, lastOp, reporters, call, peer>>

----------------------------------------------------------------------------
(* Bounds *)

NumReports == 3
MaxTicks == 1
MaxFailures == 1
TickHours == 100

Ids == 1..NumReports

----------------------------------------------------------------------------
(* Values *)

NoTime == -1                \* absent timestamp / deadline (null, undefined)
NoId == 0                   \* absent document reference
NoSeverity == "unset"       \* severity field absent
Severities == {"Low", "Medium", "High", "Critical"}
States == {"New", "In Progress", "Overdue", "Completed", "Merged"}
Terminal == {"Completed", "Merged"}
NoIncident == [id |-> NoId]
NoCall == [fn |-> "none", args |-> <<>>, result |-> NoTime]
NoPeer == [pc |-> "idle", id |-> NoId, data |-> NoIncident,
           incident |-> NoIncident, candidates |-> <<>>]

Tri(b) == IF b THEN "true" ELSE "false"   \* a stored boolean; "unset" = absent

----------------------------------------------------------------------------
(* utils/incidentUtils.ts *)

FALLBACK_TIMEFRAMES ==
    [Low |-> 168, Medium |-> 120, High |-> 72, Critical |-> 24]

calculateDeadline(creationTimestamp, severity) ==
    IF creationTimestamp = NoTime THEN NoTime
    ELSE creationTimestamp +
         (IF severity \in DOMAIN FALLBACK_TIMEFRAMES
              THEN FALLBACK_TIMEFRAMES[severity] ELSE 24)

\* The creation timestamp as the caller hands it over, before any
\* conversion: kind is what the code's type tests distinguish, time the
\* instant it carries (NoTime when it carries none), text a string's content.
Raw(kind, time, text) == [kind |-> kind, time |-> time, text |-> text]

NaN == -2                   \* the time value of an Invalid Date

\* Date parsing (new Date(text)) on the strings of the model
DateStrings ==
    [text \in {"1970-01-01T01:00:00Z", "1970-01-01T02:00:00Z",
               "1970-01-01T03:00:00Z"} |->
        CASE text = "1970-01-01T01:00:00Z" -> 1
          [] text = "1970-01-01T02:00:00Z" -> 2
          [] OTHER -> 3]

parseDate(text) ==
    IF text \in DOMAIN DateStrings THEN DateStrings[text] ELSE NaN

\* JavaScript truthiness of the argument (line 49: !creationTimestamp)
truthy(raw) ==
    CASE raw.kind \in {"undefined", "null"} -> FALSE
      [] raw.kind = "string" -> raw.text # ""
      [] raw.kind = "number" -> raw.time # 0
      [] OTHER -> TRUE

\* lines 51-63: the creation date the branches build (its time value), or
\* NoTime where the function returns null
creationDate(raw) ==
    CASE raw.kind = "Timestamp" -> raw.time
      [] raw.kind = "object" /\ raw.time # NoTime /\ raw.time # 0 -> raw.time
      [] raw.kind = "Date" -> raw.time
      [] raw.kind = "string" -> parseDate(raw.text)
      [] OTHER -> NoTime

\* calculateDeadline on an argument of any representation: the time value
\* of the Date it returns (NaN for an Invalid Date), NoTime for null
calculateDeadlineFrom(raw, severity) ==
    IF ~truthy(raw) THEN NoTime
    ELSE IF creationDate(raw) = NoTime THEN NoTime
    ELSE IF creationDate(raw) = NaN THEN NaN
    ELSE calculateDeadline(creationDate(raw), severity)

isOverdue(deadline, status, clock) ==
    IF status \in {"Completed", "Merged"} THEN FALSE
    ELSE IF deadline = NoTime THEN FALSE
    ELSE clock > deadline

getSeverityRanking(severity) ==
    CASE severity = "Critical" -> 4
      [] severity = "High" -> 3
      [] severity = "Medium" -> 2
      [] severity = "Low" -> 1
      [] OTHER -> 0

calculateDistance(lat1, lat2) ==
    IF lat1 >= lat2 THEN lat1 - lat2 ELSE lat2 - lat1

----------------------------------------------------------------------------
(* utils/incidentTypeUtils.ts: an incident type is a string, modelled as a  *)
(* sequence of one-character strings.                                      *)

\* the `incidentTypes` collection (external catalog), in query order
IncidentTypes ==
    << [id |-> <<"1">>, name |-> <<"P">>, severity |-> "Low"],
       [id |-> <<"G">>, name |-> <<"G">>, severity |-> "High"],
       [id |-> <<"2">>, name |-> <<"C">>, severity |-> "Critical"] >>

\* String.prototype.toLowerCase on one character
toLowerCaseChar(c) ==
    CASE c = "P" -> "p"
      [] c = "G" -> "g"
      [] c = "C" -> "c"
      [] OTHER -> c

toLowerCase(s) == [k \in 1..Len(s) |-> toLowerCaseChar(s[k])]

RECURSIVE trimStart(_)
trimStart(s) ==
    IF s # <<>> /\ Head(s) = " " THEN trimStart(Tail(s)) ELSE s

RECURSIVE trimEnd(_)
trimEnd(s) ==
    IF s # <<>> /\ s[Len(s)] = " " THEN trimEnd(SubSeq(s, 1, Len(s) - 1)) ELSE s

\* String.prototype.trim
trim(s) == trimEnd(trimStart(s))

\* incidentType.split(/[,;\/]/): the pieces between separators, in order;
\* the empty string splits to one empty piece
RECURSIVE splitFrom(_, _)
splitFrom(s, piece) ==
    IF s = <<>> THEN <<piece>>
    ELSE IF Head(s) \in {",", ";", "/"}
        THEN <<piece>> \o splitFrom(Tail(s), <<>>)
        ELSE splitFrom(Tail(s), Append(piece, Head(s)))

split(s) == splitFrom(s, <<>>)

\* the single-type branch of getIncidentTypeSeverity: by document id, then
\* by case-insensitive name (the last match of the forEach wins), else
\* Medium; an empty id makes doc() throw, which the catch turns into Medium.
\* With the catalog fixed the 5-minute cache returns what these reads return.
singleTypeSeverity(singleType) ==
    LET byId == {k \in 1..Len(IncidentTypes) : IncidentTypes[k].id = singleType}
        byName == {k \in 1..Len(IncidentTypes) :
                      toLowerCase(IncidentTypes[k].name) = toLowerCase(singleType)}
        maxOf(S) == CHOOSE k \in S : \A m \in S : m <= k
    IN  IF singleType = <<>> THEN "Medium"
        ELSE IF byId # {} THEN IncidentTypes[maxOf(byId)].severity
        ELSE IF byName # {} THEN IncidentTypes[maxOf(byName)].severity
        ELSE "Medium"

\* the forEach over the severities of the pieces, starting from Medium
RECURSIVE highestOf(_, _)
highestOf(severities, highestSeverity) ==
    IF severities = <<>> THEN highestSeverity
    ELSE highestOf(Tail(severities),
            IF getSeverityRanking(Head(severities)) > getSeverityRanking(highestSeverity)
                THEN Head(severities) ELSE highestSeverity)

getIncidentTypeSeverity(incidentType) ==
    LET types == split(incidentType)
    IN  IF Len(types) > 1
            THEN highestOf([k \in 1..Len(types) |-> singleTypeSeverity(trim(types[k]))],
                           "Medium")
            ELSE singleTypeSeverity(trim(incidentType))

\* utils/incidentUtils.ts
determineSeverityFromType(incidentType) ==
    IF incidentType = <<>> THEN "Medium" ELSE getIncidentTypeSeverity(incidentType)

----------------------------------------------------------------------------
(* The document store (firebase/firestore, external): updateDoc merges the *)
(* given fields into an existing document and rejects when there is none.  *)

updateDoc(store, id, fields) ==
    [store EXCEPT ![id] =
        [f \in DOMAIN store[id] |->
            IF f \in DOMAIN fields THEN fields[f] ELSE store[id][f]]]

\* the fields of rec named in S
Pick(rec, S) == [f \in S |-> rec[f]]

\* an alert(...) call: the fixed text and the values interpolated into it
Alert(text, args) == [text |-> text, args |-> args]

NoAlert == Alert("", <<>>)

\* outcome of a handler as the page shows it: which handler ran on which
\* documents, how it ended, and the alert it raised
Outcome(op, target, sources, result, alert) ==
    [op |-> op, target |-> target, sources |-> sources, result |-> result,
     alert |-> alert]

----------------------------------------------------------------------------
(* pages/IncidentDetail.tsx: fetchIncident                                 *)

\* detailReconcile as it would be if the deadline were computed before the
\* severity is derived, from the stored severity (sensitivity of C2)
detailReconcileStaleDeadline(d, clock) ==
    LET shouldUpdateSeverity == d.severity = NoSeverity \/ d.severity = "Low"
        severity0 == IF d.severity = NoSeverity THEN "Low" ELSE d.severity
        severity ==
            IF shouldUpdateSeverity /\ d.incidentType # <<>>
                THEN determineSeverityFromType(d.incidentType)
                ELSE severity0
        deadline == calculateDeadline(d.timestamp, severity0)
        drift == IF d.deadline >= deadline THEN d.deadline - deadline
                                           ELSE deadline - d.deadline
        deadlineNeeds ==
            IF deadline # NoTime /\ d.deadline # NoTime THEN drift > 1
            ELSE deadline # NoTime
        status0 == d.reportState
        shouldBeOverdue == isOverdue(deadline, status0, clock)
        active == status0 # "Completed" /\ status0 # "Merged"
        isOverdueFlag == IF active THEN shouldBeOverdue ELSE FALSE
        status ==
            IF active /\ shouldBeOverdue /\ status0 # "Overdue" THEN "Overdue"
            ELSE IF active /\ ~shouldBeOverdue /\ status0 = "Overdue" THEN "In Progress"
            ELSE status0
        needsUpdate ==
            \/ severity # d.severity
            \/ deadlineNeeds
            \/ active /\ d.isOverdue # Tri(shouldBeOverdue)
            \/ status # status0
    IN  [severity |-> severity, deadline |-> deadline, status |-> status,
         isOverdueFlag |-> isOverdueFlag, needsUpdate |-> needsUpdate]

\* lines 84-161: what fetchIncident computes from the document it read
detailReconcile(d, clock) ==
    LET shouldUpdateSeverity == d.severity = NoSeverity \/ d.severity = "Low"
        severity0 == IF d.severity = NoSeverity THEN "Low" ELSE d.severity
        severity ==
            IF shouldUpdateSeverity /\ d.incidentType # <<>>
                THEN determineSeverityFromType(d.incidentType)
                ELSE severity0
        deadline == calculateDeadline(d.timestamp, severity)
        drift == IF d.deadline >= deadline THEN d.deadline - deadline
                                           ELSE deadline - d.deadline
        deadlineNeeds ==
            IF deadline # NoTime /\ d.deadline # NoTime THEN drift > 1
            ELSE deadline # NoTime
        status0 == d.reportState
        shouldBeOverdue == isOverdue(deadline, status0, clock)
        active == status0 # "Completed" /\ status0 # "Merged"
        isOverdueFlag == IF active THEN shouldBeOverdue ELSE FALSE
        status ==
            IF active /\ shouldBeOverdue /\ status0 # "Overdue" THEN "Overdue"
            ELSE IF active /\ ~shouldBeOverdue /\ status0 = "Overdue" THEN "In Progress"
            ELSE status0
        needsUpdate ==
            \/ severity # d.severity
            \/ deadlineNeeds
            \/ active /\ d.isOverdue # Tri(shouldBeOverdue)
            \/ status # status0
    IN  [severity |-> severity, deadline |-> deadline, status |-> status,
         isOverdueFlag |-> isOverdueFlag, needsUpdate |-> needsUpdate]

\* lines 164-182: the fields of the updateDoc call (empty: no write)
detailUpdates(d, clock) ==
    LET r == detailReconcile(d, clock)
        all == [isOverdue |-> Tri(r.isOverdueFlag), reportState |-> r.status,
                severity |-> r.severity, deadline |-> r.deadline]
    IN  IF ~r.needsUpdate THEN Pick(all, {})
        ELSE Pick(all, {"isOverdue", "reportState"}
                        \cup (IF r.severity # d.severity THEN {"severity"} ELSE {})
                        \cup (IF r.deadline # NoTime THEN {"deadline"} ELSE {}))

\* firstViewApplies as it would be if a view moved every incident that is
\* not yet In Progress (sensitivity of C8)
firstViewAppliesUnlessInProgress(status) == status # "In Progress"

\* firstViewApplies as it would be if an Overdue incident were also taken
\* for one not yet seen
firstViewAppliesToOverdue(status) == status \in {"New", "Overdue"}

\* lines 226-233: the first view of a New incident
firstViewApplies(status) == status = "New"

\* the page-local state a freshly mounted page starts with
NoCandidates == <<>>

FreshPage(p) ==
    /\ page' = p
    /\ pendingSeverity' = NoSeverity
    /\ showSeverityModal' = FALSE
    /\ candidates' = NoCandidates
    /\ isVisible' = TRUE
    /\ relatedReports' = {}
    /\ currentReport' = FALSE

\* lines 64-243: the effect that runs when /incidents/:id is opened.  One
\* behaviour follows the life of one incident: the session opens the detail
\* page of a single incident of its choice, and besides that only the page
\* a merge redirects it to.
fetchIncident(id) ==
    LET d == reports[id]
        r == detailReconcile(d, now)
        upd == detailUpdates(d, now)
        reconciled == IF DOMAIN upd # {} THEN updateDoc(reports, id, upd) ELSE reports
        first == firstViewApplies(r.status)
    IN  /\ IF page = "redirect" THEN id = lastOp.target ELSE opened \subseteq {id}
        /\ opened' = opened \cup {id}
        /\ FreshPage("detail")
        /\ groups' = <<>>
        /\ IF ~d.exists
             THEN /\ reports' = reports
                  /\ incident' = NoIncident
                  /\ lastOp' = Outcome("fetchIncident", id, {}, "not-found", NoAlert)
             ELSE /\ reports' =
                        IF first
                          THEN updateDoc(reconciled, id,
                                   [reportState |-> "In Progress", lastViewed |-> now])
                          ELSE reconciled
                  /\ incident' =
                        [id |-> id, severity |-> r.severity,
                         status |-> IF first THEN "In Progress" ELSE r.status,
                         timestamp |-> d.timestamp, incidentType |-> d.incidentType,
                         latitude |-> d.latitude, description |-> d.description]
                  /\ lastOp' = Outcome("fetchIncident", id, {}, "ok", NoAlert)
        /\ UNCHANGED <<now, failures, reporters, call, peer>>

----------------------------------------------------------------------------
(* pages/Incidents.tsx: fetchIncidents                                     *)

\* listReconcile as it would be if the type always decided the severity,
\* as the commented-out `shouldUpdateSeverity = true` does (sensitivity of C9)
listReconcileForced(d, clock) ==
    LET derive == d.incidentType # <<>>
        severity ==
            IF derive THEN determineSeverityFromType(d.incidentType)
            ELSE IF d.severity = NoSeverity THEN "Low" ELSE d.severity
        afterSeverity ==
            IF derive /\ severity # d.severity THEN [d EXCEPT !.severity = severity] ELSE d
        status == d.reportState
        deadline == calculateDeadline(d.timestamp, severity)
        shouldBeOverdue == isOverdue(deadline, status, clock)
    IN  IF shouldBeOverdue /\ status # "Completed" /\ status # "Merged"
            THEN [afterSeverity EXCEPT !.reportState = "Overdue", !.deadline = deadline]
            ELSE afterSeverity

\* lines 74-121, for one document of the query: the document after the
\* callback's writes
listReconcile(d, clock) ==
    LET derive == (d.severity = NoSeverity \/ d.severity = "Low") /\ d.incidentType # <<>>
        severity ==
            IF derive THEN determineSeverityFromType(d.incidentType)
            ELSE IF d.severity = NoSeverity THEN "Low" ELSE d.severity
        afterSeverity ==
            IF derive /\ severity # d.severity THEN [d EXCEPT !.severity = severity] ELSE d
        status == d.reportState
        deadline == calculateDeadline(d.timestamp, severity)
        shouldBeOverdue == isOverdue(deadline, status, clock)
    IN  IF shouldBeOverdue /\ status # "Completed" /\ status # "Merged"
            THEN [afterSeverity EXCEPT !.reportState = "Overdue", !.deadline = deadline]
            ELSE afterSeverity

\* lines 67-145: opening the incident list
fetchIncidents ==
    /\ page # "redirect"
    /\ FreshPage("list")
    /\ groups' = <<>>
    /\ incident' = NoIncident
    /\ reports' = [i \in Ids |->
                      IF reports[i].exists THEN listReconcile(reports[i], now)
                                           ELSE reports[i]]
    /\ lastOp' = Outcome("fetchIncidents", NoId, {}, "ok", NoAlert)
    /\ UNCHANGED <<now, opened, failures, reporters, call, peer>>

----------------------------------------------------------------------------
(* utils/reporterUtils.ts: reporter trust.  Reporter records live in the   *)
(* `reporter` and the `users` collection; `parent` names the collection a  *)
(* record is in.                                                           *)

NumReporters == 2
MaxEvents == 5              \* trust events counted on one record
TenureHours == 7200         \* 300 days

ReporterIds == 1..NumReporters
Emails == {"a@x", "b@x"}
Undefined == NoTime         \* an absent numeric field

NoReporter ==
    [exists |-> FALSE, parent |-> "reporter", email |-> "", reporterEmail |-> "",
     reportCount |-> Undefined, verifiedReports |-> Undefined,
     falseReports |-> Undefined, trustLevel |-> Undefined,
     createdAt |-> NoTime, updatedAt |-> NoTime]

NoReporters == [r \in ReporterIds |-> NoReporter]

min(a, b) == IF a <= b THEN a ELSE b
max(a, b) == IF a >= b THEN a ELSE b

\* value || 0 on a numeric field
orZero(value) == IF value = Undefined THEN 0 ELSE value

\* Math.round(n / d * 20) for n >= 0, d > 0
roundAccuracy(n, d) == (40 * n + d) \div (2 * d)

calculateTrustLevel(reportCount, verifiedReports, falseReports, createdAt, clock) ==
    LET creation == IF createdAt = NoTime THEN clock ELSE createdAt
        daysAsContributor == max(1, (clock - creation) \div 24)
        base == 10 + min(50, verifiedReports * 5)
        accurate == base + (IF reportCount > 0
                              THEN roundAccuracy(verifiedReports, reportCount)
                              ELSE 0)
        tenured == accurate + min(10, daysAsContributor \div 30)
        trustScore == tenured - min(tenured - 5, falseReports * 10)
    IN  max(0, min(100, trustScore))

\* the three queries of the lookup, in the order the code tries them; the
\* first document of the first non-empty result, NoId when all are empty
findReporter(store, reporterEmail) ==
    LET inReporter == {r \in ReporterIds : /\ store[r].exists
                                           /\ store[r].parent = "reporter"
                                           /\ store[r].email = reporterEmail}
        inUsers == {r \in ReporterIds : /\ store[r].exists
                                        /\ store[r].parent = "users"
                                        /\ store[r].email = reporterEmail}
        byReporterEmail == {r \in ReporterIds :
                                /\ store[r].exists
                                /\ store[r].parent = "users"
                                /\ store[r].reporterEmail = reporterEmail}
        first(S) == CHOOSE r \in S : \A q \in S : r <= q
    IN  IF inReporter # {} THEN first(inReporter)
        ELSE IF inUsers # {} THEN first(inUsers)
        ELSE IF byReporterEmail # {} THEN first(byReporterEmail)
        ELSE NoId

\* doc(collection(db, 'reporter')): a reference to a document that does not
\* exist (NoId when the model has no identifier left for it)
newReporterRef(store) ==
    IF \E r \in ReporterIds : ~store[r].exists
        THEN CHOOSE r \in ReporterIds : ~store[r].exists
        ELSE NoId

\* updateDoc with its rejection: the store afterwards and whether the
\* promise resolved
tryUpdateDoc(store, id, fields) ==
    IF id \in DOMAIN store /\ store[id].exists
        THEN [store |-> updateDoc(store, id, fields), ok |-> TRUE]
        ELSE [store |-> store, ok |-> FALSE]

Call(fn, args, result) == [fn |-> fn, args |-> args, result |-> result]

eventCount(data) == orZero(data.verifiedReports) + orZero(data.falseReports)

\* updateReporterTrustOnVerification: the collection afterwards and the
\* boolean the promise resolves to
trustOnVerification(store, reporterEmail, clock) ==
    LET found == findReporter(store, reporterEmail)
        created == tryUpdateDoc(store, newReporterRef(store),
                       [parent |-> "reporter", email |-> reporterEmail,
                        reportCount |-> 1, verifiedReports |-> 1,
                        falseReports |-> 0, trustLevel |-> 15,
                        createdAt |-> clock, updatedAt |-> clock])
        reporterData == store[found]
        verifiedReports == orZero(reporterData.verifiedReports) + 1
        reportCount == orZero(reporterData.reportCount) +
                       (IF reporterData.reportCount = Undefined THEN 1 ELSE 0)
        falseReports == orZero(reporterData.falseReports)
        newTrustLevel == calculateTrustLevel(reportCount, verifiedReports,
                             falseReports, reporterData.createdAt, clock)
        trustLevelWithBonus == newTrustLevel + 10
    IN  IF reporterEmail = "" THEN [store |-> store, ok |-> FALSE]
        ELSE IF found = NoId THEN created
        ELSE [store |-> updateDoc(store, found,
                            [verifiedReports |-> verifiedReports,
                             reportCount |-> reportCount,
                             trustLevel |-> trustLevelWithBonus,
                             updatedAt |-> clock]),
              ok |-> TRUE]

\* updateReporterTrustOnFalseReport, likewise
trustOnFalseReport(store, reporterEmail, clock) ==
    LET found == findReporter(store, reporterEmail)
        created == tryUpdateDoc(store, newReporterRef(store),
                       [parent |-> "reporter", email |-> reporterEmail,
                        reportCount |-> 1, verifiedReports |-> 0,
                        falseReports |-> 1, trustLevel |-> 5,
                        createdAt |-> clock, updatedAt |-> clock])
        reporterData == store[found]
        falseReports == orZero(reporterData.falseReports) + 1
        reportCount == orZero(reporterData.reportCount) +
                       (IF reporterData.reportCount = Undefined THEN 1 ELSE 0)
        verifiedReports == orZero(reporterData.verifiedReports)
        newTrustLevel == calculateTrustLevel(reportCount, verifiedReports,
                             falseReports, reporterData.createdAt, clock)
    IN  IF reporterEmail = "" THEN [store |-> store, ok |-> FALSE]
        ELSE IF found = NoId THEN created
        ELSE [store |-> updateDoc(store, found,
                            [falseReports |-> falseReports,
                             reportCount |-> reportCount,
                             trustLevel |-> newTrustLevel,
                             updatedAt |-> clock]),
              ok |-> TRUE]

\* the trust events a record may still take in the model
belowMaxEvents(reporterEmail) ==
    findReporter(reporters, reporterEmail) # NoId =>
        eventCount(reporters[findReporter(reporters, reporterEmail)]) < MaxEvents

updateReporterTrustOnVerification(reporterEmail) ==
    LET done == trustOnVerification(reporters, reporterEmail, now)
    IN  /\ belowMaxEvents(reporterEmail)
        /\ reporters' = done.store
        /\ call' = Call("updateReporterTrustOnVerification", <<reporterEmail>>,
                        done.ok)
        /\ UNCHANGED <<reports, now, page, incident, pendingSeverity,
                       showSeverityModal, candidates, isVisible, groups,
                       relatedReports, currentReport, opened, failures, lastOp,
                       peer>>

updateReporterTrustOnFalseReport(reporterEmail) ==
    LET done == trustOnFalseReport(reporters, reporterEmail, now)
    IN  /\ belowMaxEvents(reporterEmail)
        /\ reporters' = done.store
        /\ call' = Call("updateReporterTrustOnFalseReport", <<reporterEmail>>,
                        done.ok)
        /\ UNCHANGED <<reports, now, page, incident, pendingSeverity,
                       showSeverityModal, candidates, isVisible, groups,
                       relatedReports, currentReport, opened, failures, lastOp,
                       peer>>

----------------------------------------------------------------------------
(* pages/IncidentDetail.tsx: staff operations on the open incident         *)

\* lines 288-293
handleSeverityChange(newSeverity) ==
    /\ page = "detail"
    /\ incident # NoIncident
    /\ ~showSeverityModal
    /\ newSeverity # incident.severity
    /\ pendingSeverity' = newSeverity
    /\ showSeverityModal' = TRUE
    /\ UNCHANGED <<reports, now, page, incident, candidates, isVisible, groups,
                   relatedReports, currentReport, opened, failures, lastOp,
                   reporters, call, peer>>

\* line 939: SeverityChangeModal onClose
closeSeverityModal ==
    /\ showSeverityModal
    /\ showSeverityModal' = FALSE
    /\ UNCHANGED <<reports, now, page, incident, pendingSeverity, candidates,
                   isVisible, groups, relatedReports, currentReport, opened,
                   failures, lastOp, reporters, call,
                   peer>>

\* severityUpdate as it would be if a severity change also put the incident
\* back In Progress
severityUpdateWithStatus(newSeverity, newDeadline) ==
    [severity |-> newSeverity, deadline |-> newDeadline,
     reportState |-> "In Progress"]

\* lines 277-280: the fields of the updateDoc call
severityUpdate(newSeverity, newDeadline) ==
    [severity |-> newSeverity, deadline |-> newDeadline]

\* lines 270-286 (called from the modal's onConfirm, lines 940-945): no read
\* of the document; the updateDoc of a document that is gone is rejected
\* with the code not-found, which is caught and only logged
applySeverityChange ==
    LET newSeverity == pendingSeverity
        id == incident.id
        newDeadline == calculateDeadline(incident.timestamp, newSeverity)
        ok == newDeadline # NoTime /\ reports[id].exists
    IN  /\ showSeverityModal
        /\ pendingSeverity # NoSeverity
        /\ showSeverityModal' = FALSE
        /\ reports' = IF ok
                        THEN updateDoc(reports, id,
                                 severityUpdate(newSeverity, newDeadline))
                        ELSE reports
        /\ incident' = IF ok THEN [incident EXCEPT !.severity = newSeverity]
                             ELSE incident
        /\ lastOp' = Outcome("applySeverityChange", id, {},
                             IF ok THEN "ok"
                             ELSE IF newDeadline = NoTime THEN "failed" ELSE "not-found",
                             NoAlert)
        /\ UNCHANGED <<now, page, pendingSeverity, candidates, isVisible, groups,
                       relatedReports, currentReport, opened, failures,
                       reporters, call, peer>>

NoText == [format |-> "", days |-> 0, hours |-> 0]    \* the empty string

\* lines 327-352: the resolution time as text, days first; with whole hours
\* the minutes part is always 0
formatResolutionTime(diffHours) ==
    LET days == diffHours \div 24
        hours == diffHours % 24
        text(format, d, h) == [format |-> format, days |-> d, hours |-> h]
    IN  IF days > 0
            THEN IF hours > 0 THEN text("${days}d ${hours}h", days, hours)
                              ELSE text("${days}d", days, 0)
        ELSE IF hours > 0 THEN text("${hours}h", 0, hours)
        ELSE text("Less than 1 minute", 0, 0)

\* completionFields as it would be if completing left isOverdue as stored
completionFieldsKeepingOverdue(d, endTime) ==
    [reportState |-> "Completed", completedAt |-> endTime,
     resolutionTimeHours |-> IF d.timestamp # NoTime THEN endTime - d.timestamp ELSE 0,
     resolutionTimeFormatted |->
        IF d.timestamp # NoTime THEN formatResolutionTime(endTime - d.timestamp)
                                ELSE NoText]

\* lines 306-373: the fields of the updateDoc call, from the document just
\* read and the completion time
completionFields(d, endTime) ==
    LET hasStart == d.timestamp # NoTime
        resolutionTimeHours == IF hasStart THEN endTime - d.timestamp ELSE 0
        resolutionTimeFormatted ==
            IF hasStart THEN formatResolutionTime(endTime - d.timestamp) ELSE NoText
    IN  [reportState |-> "Completed", isOverdue |-> "false",
         completedAt |-> endTime,
         resolutionTimeHours |-> resolutionTimeHours,
         resolutionTimeFormatted |-> resolutionTimeFormatted]

\* lines 382 and 430: the reporter of a report gets trust events
hasReporter(d) == ~d.isAnonymous /\ d.reporterEmail # ""

\* lines 295-396.  The trust update (lines 381-388) runs after the write
\* and its outcome is only logged.
handleMarkAsCompleted ==
    LET id == incident.id
        d == reports[id]
        fields == completionFields(d, now)
        resolutionTimeFormatted == fields.resolutionTimeFormatted
        trust == trustOnVerification(reporters, d.reporterEmail, now)
    IN  /\ page = "detail"
        /\ incident # NoIncident
        /\ ~showSeverityModal
        /\ (d.exists /\ hasReporter(d)) => belowMaxEvents(d.reporterEmail)
        /\ IF ~d.exists
             THEN /\ reports' = reports
                  /\ incident' = incident
                  /\ reporters' = reporters
                  /\ call' = call
                  /\ lastOp' = Outcome("handleMarkAsCompleted", id, {}, "not-found",
                        Alert("Failed to mark incident as completed. Please try again.",
                              <<>>))
             ELSE /\ reports' = updateDoc(reports, id, fields)
                  /\ incident' = [incident EXCEPT !.status = "Completed"]
                  /\ reporters' = IF hasReporter(d) THEN trust.store ELSE reporters
                  /\ call' = IF hasReporter(d)
                               THEN Call("updateReporterTrustOnVerification",
                                         <<d.reporterEmail>>, trust.ok)
                               ELSE call
                  /\ lastOp' = Outcome("handleMarkAsCompleted", id, {}, "ok",
                        Alert("Incident has been marked as resolved successfully! Resolution time: ",
                              <<resolutionTimeFormatted>>))
        /\ UNCHANGED <<now, page, pendingSeverity, showSeverityModal, candidates,
                       isVisible, groups, relatedReports, currentReport, opened,
                       failures, peer>>

\* lines 398-446; reason is the option picked in FlagReportModal.  The
\* trust update (lines 429-437) runs after the write, for a false report
\* only, and its outcome is only logged.
handleFlagReport(reason) ==
    LET id == incident.id
        d == reports[id]
        event == reason = "false_report" /\ hasReporter(d)
        trust == trustOnFalseReport(reporters, d.reporterEmail, now)
    IN  /\ page = "detail"
        /\ incident # NoIncident
        /\ ~showSeverityModal
        /\ (d.exists /\ event) => belowMaxEvents(d.reporterEmail)
        /\ IF ~d.exists
             THEN /\ reports' = reports
                  /\ reporters' = reporters
                  /\ call' = call
                  /\ lastOp' = Outcome("handleFlagReport", id, {}, "not-found",
                        Alert("Failed to flag report. Please try again.", <<>>))
             ELSE /\ reports' = updateDoc(reports, id,
                        [flagged |-> TRUE, flaggedAt |-> now, flagReason |-> reason,
                         flagStatus |-> "pending_review"])
                  /\ reporters' = IF event THEN trust.store ELSE reporters
                  /\ call' = IF event
                               THEN Call("updateReporterTrustOnFalseReport",
                                         <<d.reporterEmail>>, trust.ok)
                               ELSE call
                  /\ lastOp' = Outcome("handleFlagReport", id, {}, "ok",
                        Alert("Report has been flagged for review by administrators.",
                              <<>>))
        /\ UNCHANGED <<now, page, incident, pendingSeverity, showSeverityModal,
                       candidates, isVisible, groups, relatedReports, currentReport,
                       opened, failures, peer>>

----------------------------------------------------------------------------
(* Duplicate detection and merge                                           *)

\* words of the separator banners, after the similarity check's clean-up
MERGED == 100
FROM == 101
REPORT == 102
IdWord(id) == 200 + id

\* components/RelatedReports.tsx, lines 472-502.  A description is the
\* sequence of its words, all longer than 3 characters; one cleaned string
\* includes the other when its words occur in it contiguously.
includes(a, b) ==
    \E k \in 0..(Len(a) - Len(b)) : SubSeq(a, k + 1, k + Len(b)) = b

checkDescriptionSimilarity(desc1, desc2) ==
    LET matchCount == Cardinality({k \in 1..Len(desc1) :
                                      \E m \in 1..Len(desc2) : desc2[m] = desc1[k]})
        minWordCount == IF Len(desc1) <= Len(desc2) THEN Len(desc1) ELSE Len(desc2)
    IN  IF desc1 = <<>> \/ desc2 = <<>> THEN FALSE
        ELSE IF includes(desc1, desc2) \/ includes(desc2, desc1) THEN TRUE
        ELSE matchCount * 100 >= 30 * minWordCount

\* the copy of a document a page keeps ({ id: doc.id, ...data })
Snapshot(id, d) ==
    [id |-> id, timestamp |-> d.timestamp, description |-> d.description,
     mediaUrls |-> d.mediaUrls, incidentType |-> d.incidentType,
     latitude |-> d.latitude]

\* Array.prototype.sort((a, b) => key(a) - key(b)), which is stable:
\* items by ascending key, equal keys in their original order
sortBy(items, key(_)) ==
    LET n == Len(items)
        rank(k) == 1 + Cardinality({m \in 1..n :
                        \/ key(items[m]) < key(items[k])
                        \/ key(items[m]) = key(items[k]) /\ m < k})
    IN  [r \in 1..n |-> items[CHOOSE k \in 1..n : rank(k) = r]]

\* the documents of a query, in document-id order
RECURSIVE docsOf(_, _)
docsOf(store, ids) ==
    IF ids = {} THEN <<>>
    ELSE LET least == CHOOSE i \in ids : \A j \in ids : i <= j
         IN  <<Snapshot(least, store[least])>> \o docsOf(store, ids \ {least})

\* the three tests both SmartMergeAlert and DuplicateDetection apply to a pair
isDuplicate(type, latitude, description, data) ==
    LET distance == calculateDistance(latitude, data.latitude)
    IN  /\ data.incidentType = type
        /\ ~(distance > 100)
        /\ (distance < 20 \/ checkDescriptionSimilarity(description, data.description))

\* arrayUnion on a list field: appends the elements not yet present
RECURSIVE arrayUnion(_, _)
arrayUnion(array, elements) ==
    IF elements = <<>> THEN array
    ELSE arrayUnion(
            IF \E k \in 1..Len(array) : array[k] = Head(elements)
                THEN array ELSE Append(array, Head(elements)),
            Tail(elements))

RECURSIVE concat(_)
concat(seqs) == IF seqs = <<>> THEN <<>> ELSE Head(seqs) \o concat(Tail(seqs))

\* `\n\n--- Merged from #${d.id.slice(-6)} ---\n${d.description}` per source
appendedDescription(sources) ==
    concat([k \in 1..Len(sources) |->
               <<MERGED, FROM, IdWord(sources[k].id)>> \o sources[k].description])

mergedInfo(sources, clock) ==
    {[id |-> sources[k].id, timestamp |-> sources[k].timestamp, mergedAt |-> clock] :
        k \in 1..Len(sources)}

\* the writes of a merge, in program order: each is an updateDoc that is
\* rejected when the store is unreachable (failAt is the position of the
\* write the store fails, 0 for none) or, with the code not-found, when the
\* document is gone; the first rejection throws and skips the rest
RECURSIVE applyWrites(_, _, _, _)
applyWrites(store, writes, position, failAt) ==
    IF writes = <<>> THEN [store |-> store, ok |-> TRUE, result |-> "ok"]
    ELSE IF position = failAt
        THEN [store |-> store, ok |-> FALSE, result |-> "failed"]
    ELSE IF ~store[Head(writes).id].exists
        THEN [store |-> store, ok |-> FALSE, result |-> "not-found"]
        ELSE applyWrites(updateDoc(store, Head(writes).id, Head(writes).fields),
                         Tail(writes), position + 1, failAt)

\* programOrder as it would be if the duplicates were written before the
\* primary report (sensitivity of C5)
duplicatesFirst(primaryWrite, duplicateWrites) == duplicateWrites \o <<primaryWrite>>

\* the primary report is written first, then each duplicate in turn
\* (SmartMergeAlert.tsx lines 138-152 and 405-418)
programOrder(primaryWrite, duplicateWrites) == <<primaryWrite>> \o duplicateWrites

\* sourceWrites as it would be if a duplicate were only marked Merged, with
\* no reference to the report it went into (sensitivity of C4)
sourceWritesStatusOnly(sources, targetId, clock) ==
    [k \in 1..Len(sources) |->
        [id |-> sources[k].id,
         fields |-> [reportState |-> "Merged", mergedAt |-> clock]]]

\* SmartMergeAlert.tsx lines 145-152 and 411-418: the update of each duplicate
sourceWrites(sources, targetId, clock) ==
    [k \in 1..Len(sources) |->
        [id |-> sources[k].id,
         fields |-> [reportState |-> "Merged", mergedInto |-> targetId,
                     mergedAt |-> clock]]]

\* components/SmartMergeAlert.tsx, lines 43-90: the candidates of the
\* incident the component's props describe
potentialDuplicates(store, props) ==
    LET active == {i \in Ids : store[i].exists
                               /\ store[i].reportState \in {"New", "In Progress"}}
        Matches(data) ==
            /\ data.id # props.id
            /\ data.latitude # 0
            /\ isDuplicate(props.incidentType, props.latitude,
                           props.description, data)
        Distance(data) == calculateDistance(props.latitude, data.latitude)
    IN  sortBy(SelectSeq(docsOf(store, active), Matches), Distance)

\* components/SmartMergeAlert.tsx, lines 40-95
checkForDuplicates ==
    /\ page = "detail"
    /\ incident # NoIncident
    /\ incident.status \notin {"Merged", "Completed"}
    /\ incident.latitude # 0
    /\ candidates' = potentialDuplicates(reports, incident)
    /\ UNCHANGED <<reports, now, page, incident, pendingSeverity,
                   showSeverityModal, isVisible, groups, relatedReports,
                   currentReport, opened, failures, lastOp,
                   reporters, call, peer>>

\* pages/IncidentDetail.tsx, lines 597-608: the detail page re-reads its
\* document after a merge and spreads the fields over its `incident`
onMergeComplete(store) ==
    LET d == store[incident.id]
    IN  IF d.exists
            THEN [incident EXCEPT !.severity = d.severity,
                                  !.timestamp = d.timestamp,
                                  !.incidentType = d.incidentType,
                                  !.latitude = d.latitude,
                                  !.description = d.description]
            ELSE incident

\* lines 113-152: the updateDoc calls of handleMerge, in program order,
\* from the component's props and the candidates left ticked
mergeWrites(store, props, selectedCandidates, clock) ==
    LET target == store[props.id]
    IN  programOrder(
           [id |-> props.id,
            fields |->
               [mergedReports |-> target.mergedReports
                                    \cup mergedInfo(selectedCandidates, clock),
                description |-> props.description
                                    \o appendedDescription(selectedCandidates),
                mediaUrls |-> arrayUnion(target.mediaUrls,
                    concat([k \in 1..Len(selectedCandidates) |->
                               selectedCandidates[k].mediaUrls]))]],
           sourceWrites(selectedCandidates, props.id, clock))

\* components/SmartMergeAlert.tsx, lines 107-163; selectedIds is what the
\* staff member left ticked.  No document is read: the writes are built from
\* the props and the candidates of the last checkForDuplicates.
handleMerge(selectedIds, failAt) ==
    LET Selected(c) == c.id \in selectedIds
        selectedCandidates == SelectSeq(candidates, Selected)
        writes == mergeWrites(reports, incident, selectedCandidates, now)
        done == applyWrites(reports, writes, 1, failAt)
    IN  /\ page = "detail"
        /\ incident # NoIncident
        /\ ~showSeverityModal
        /\ incident.status \notin {"Merged", "Completed"}
        /\ isVisible
        /\ selectedIds # {}
        /\ selectedIds \subseteq {candidates[k].id : k \in 1..Len(candidates)}
        /\ failAt \in 0..Len(writes)
        /\ failAt # 0 => failures < MaxFailures
        /\ failures' = IF failAt # 0 THEN failures + 1 ELSE failures
        /\ reports' = done.store
        /\ isVisible' = ~done.ok
        /\ incident' = IF done.ok THEN onMergeComplete(done.store) ELSE incident
        /\ lastOp' = Outcome("handleMerge", incident.id, selectedIds, done.result,
                             IF done.ok THEN Alert("Reports merged successfully!", <<>>)
                                        ELSE Alert("Failed to merge reports.", <<>>))
        /\ UNCHANGED <<now, page, pendingSeverity, showSeverityModal,
                       candidates, groups, relatedReports, currentReport, opened,
                       reporters, call, peer>>

\* scanFrom as it would be if the scan did not record the reports it has
\* already placed in a group
RECURSIVE scanFromForgetful(_, _, _)
scanFromForgetful(sorted, i, processedIds) ==
    IF i > Len(sorted) THEN <<>>
    ELSE LET primary == sorted[i]
             dupIdx == {k \in 1..Len(sorted) :
                           /\ k > i
                           /\ isDuplicate(primary.incidentType, primary.latitude,
                                          primary.description, sorted[k])}
             InGroup(c) == \E k \in dupIdx : sorted[k].id = c.id
         IN  IF dupIdx = {}
                 THEN scanFromForgetful(sorted, i + 1, processedIds)
                 ELSE <<[primary |-> primary,
                         duplicates |-> SelectSeq(sorted, InGroup)]>>
                      \o scanFromForgetful(sorted, i + 1, processedIds)

\* components/SmartMergeAlert.tsx (DuplicateDetection), lines 318-357: the
\* single pass over the reports sorted oldest first
RECURSIVE scanFrom(_, _, _)
scanFrom(sorted, i, processedIds) ==
    IF i > Len(sorted) THEN <<>>
    ELSE LET primary == sorted[i]
             Later(k) == k > i /\ sorted[k].id \notin processedIds
             dupIdx == {k \in 1..Len(sorted) :
                           /\ Later(k)
                           /\ isDuplicate(primary.incidentType, primary.latitude,
                                          primary.description, sorted[k])}
             InGroup(c) == \E k \in dupIdx : sorted[k].id = c.id
             duplicates == SelectSeq(sorted, InGroup)
         IN  IF primary.id \in processedIds \/ dupIdx = {}
                 THEN scanFrom(sorted, i + 1, processedIds)
                 ELSE <<[primary |-> primary, duplicates |-> duplicates]>>
                      \o scanFrom(sorted, i + 1,
                            processedIds \cup {primary.id}
                                         \cup {sorted[k].id : k \in dupIdx})

\* lines 289-316: the reports the dashboard analyses
detectGroups(store) ==
    LET active == {i \in Ids : /\ store[i].exists
                               /\ store[i].reportState \in {"New", "In Progress", "Overdue"}
                               /\ store[i].latitude # 0}
        Time(r) == IF r.timestamp = NoTime THEN 0 ELSE r.timestamp
    IN  scanFrom(sortBy(docsOf(store, active), Time), 1, {})

\* lines 289-372: opening the smart-merge dashboard, or its Rescan button
fetchAndAnalyzeReports ==
    /\ page # "redirect"
    /\ FreshPage("dashboard")
    /\ groups' = detectGroups(reports)
    /\ incident' = NoIncident
    /\ UNCHANGED <<reports, now, opened, failures, lastOp, reporters, call,
                    peer>>

\* lines 386-429; g is the group whose Merge button is pressed
handleMergeGroup(g, selectedIds, failAt) ==
    LET group == groups[g]
        Selected(d) == d.id \in selectedIds
        reportsToMerge == SelectSeq(group.duplicates, Selected)
        primaryId == group.primary.id
        writes ==
            programOrder(
               [id |-> primaryId,
                fields |->
                   [mergedReports |-> reports[primaryId].mergedReports
                                        \cup mergedInfo(reportsToMerge, now),
                    description |-> group.primary.description
                                        \o appendedDescription(reportsToMerge)]],
               sourceWrites(reportsToMerge, primaryId, now))
        done == applyWrites(reports, writes, 1, failAt)
    IN  /\ page = "dashboard"
        /\ g \in 1..Len(groups)
        /\ selectedIds # {}
        /\ selectedIds \subseteq {group.duplicates[k].id : k \in 1..Len(group.duplicates)}
        /\ failAt \in 0..Len(writes)
        /\ failAt # 0 => failures < MaxFailures
        /\ failures' = IF failAt # 0 THEN failures + 1 ELSE failures
        /\ reports' = done.store
        /\ groups' = IF done.ok THEN detectGroups(done.store) ELSE groups
        /\ lastOp' = Outcome("handleMergeGroup", primaryId, selectedIds, done.result,
                             IF done.ok THEN Alert("Merge successful!", <<>>)
                                        ELSE Alert("Failed to merge reports.", <<>>))
        /\ UNCHANGED <<now, page, incident, pendingSeverity, showSeverityModal,
                       candidates, isVisible, relatedReports, currentReport, opened,
                       reporters, call, peer>>

\* components/RelatedReports.tsx, lines 505-578
fetchRelatedReports ==
    LET id == incident.id
        currentDescription ==
            IF reports[id].exists THEN reports[id].description ELSE <<>>
        Related(data) ==
            /\ data.id # id
            /\ data.latitude # 0
            /\ reports[data.id].reportState # "Merged"
            /\ calculateDistance(incident.latitude, data.latitude) <= 100
            /\ \/ data.incidentType = incident.incidentType
               \/ checkDescriptionSimilarity(currentDescription, data.description)
        Distance(data) == calculateDistance(incident.latitude, data.latitude)
        found == sortBy(SelectSeq(docsOf(reports, {i \in Ids : reports[i].exists}),
                                  Related), Distance)
    IN  /\ page = "detail"
        /\ incident # NoIncident
        /\ incident.latitude # 0
        /\ incident.status # "Merged"
        /\ currentReport' = (currentReport \/ reports[id].exists)
        /\ relatedReports' = {found[k].id : k \in 1..Len(found)}
        /\ UNCHANGED <<reports, now, page, incident, pendingSeverity,
                       showSeverityModal, candidates, isVisible, groups, opened,
                       failures, lastOp, reporters, call,
                       peer>>

\* components/RelatedReports.tsx, lines 586-646; selectedReport is the
\* related report whose Merge button was pressed: the open incident is
\* merged INTO it, and the page then navigates to it (page "redirect": the
\* route /incidents/:id of the target, whose fetchIncident has yet to run)
confirmMerge(selectedReport, failAt) ==
    LET incidentId == incident.id
        targetData == reports[selectedReport]
        currentData == reports[incidentId]
        writes ==
            programOrder(
               [id |-> selectedReport,
                fields |->
                   [mergedReports |-> targetData.mergedReports \cup
                        {[id |-> incidentId, timestamp |-> currentData.timestamp,
                          mergedAt |-> now]},
                    mediaUrls |-> targetData.mediaUrls \o currentData.mediaUrls,
                    description |-> targetData.description
                        \o <<MERGED, FROM, REPORT, IdWord(incidentId)>>
                        \o currentData.description]],
               << [id |-> incidentId,
                   fields |-> [reportState |-> "Merged", mergedInto |-> selectedReport,
                               mergedAt |-> now]] >>)
        done == applyWrites(reports, writes, 1, failAt)
    IN  /\ page = "detail"
        /\ incident # NoIncident
        /\ ~showSeverityModal
        /\ incident.status # "Merged"
        /\ currentReport
        /\ selectedReport \in relatedReports
        /\ failAt \in 0..Len(writes)
        /\ failAt # 0 => failures < MaxFailures
        /\ IF ~targetData.exists \/ ~currentData.exists
             THEN /\ reports' = reports
                  /\ failures' = failures
                  /\ failAt = 0
                  /\ page' = page
                  /\ lastOp' = Outcome("confirmMerge", selectedReport, {incidentId},
                        "not-found",
                        Alert("One of the reports no longer exists.", <<>>))
             ELSE /\ reports' = done.store
                  /\ failures' = IF failAt # 0 THEN failures + 1 ELSE failures
                  /\ page' = IF done.ok THEN "redirect" ELSE page
                  /\ lastOp' = Outcome("confirmMerge", selectedReport, {incidentId},
                        done.result,
                        IF done.ok
                          THEN Alert("Reports merged successfully! Redirecting to the target report.",
                                     <<>>)
                          ELSE Alert("Failed to merge reports. Please try again.", <<>>))
        /\ UNCHANGED <<now, incident, pendingSeverity, showSeverityModal,
                       candidates, isVisible, groups, relatedReports, currentReport,
                       opened, reporters, call, peer>>

\* the store is shared with other clients: a report is deleted under us
deleteReport(id) ==
    /\ reports[id].exists
    /\ reports' = [reports EXCEPT ![id].exists = FALSE]
    /\ UNCHANGED <<now, page, incident, pendingSeverity, showSeverityModal,
                   candidates, isVisible, groups, relatedReports, currentReport,
                   opened, failures, lastOp,
                   reporters, call, peer>>

\* the passing of time
Tick ==
    /\ now + TickHours <= NumReports + MaxTicks * TickHours
    /\ now' = now + TickHours
    /\ UNCHANGED <<reports, page, incident, pendingSeverity, showSeverityModal,
                   candidates, isVisible, groups, relatedReports, currentReport,
                   opened, failures, lastOp,
                   reporters, call, peer>>

----------------------------------------------------------------------------
(* A second staff session on the same store.  Its detail page runs the     *)
(* same code; the load is taken one await at a time (getDoc, the updateDoc *)
(* of the reconcile, the updateDoc of the first view), so that the other   *)
(* session's writes can fall between them.                                 *)

mainUnchanged ==
    UNCHANGED <<now, page, incident, pendingSeverity, showSeverityModal,
                candidates, isVisible, groups, relatedReports, currentReport,
                opened, failures, lastOp, reporters, call>>

\* pages/IncidentDetail.tsx, line 69: getDoc
peerGetDoc(id) ==
    /\ peer.pc = "idle"
    /\ reports[id].exists
    /\ peer' = [peer EXCEPT !.pc = "read", !.id = id, !.data = reports[id]]
    /\ reports' = reports
    /\ mainUnchanged

\* lines 86-182: the reconcile computed from the document as it was read,
\* and its updateDoc
peerReconcile ==
    /\ peer.pc = "read"
    /\ peer' = [peer EXCEPT !.pc = "reconciled"]
    /\ \E upd \in {detailUpdates(peer.data, now)} :
          reports' = IF DOMAIN upd # {} /\ reports[peer.id].exists
                       THEN updateDoc(reports, peer.id, upd) ELSE reports
    /\ mainUnchanged

\* lines 196-233: setIncident and the first-view updateDoc
peerFirstView ==
    /\ peer.pc = "reconciled"
    /\ \E d \in {peer.data}, r \in {detailReconcile(peer.data, now)} :
          LET first == firstViewApplies(r.status)
          IN  /\ peer' = [peer EXCEPT
                    !.pc = "open",
                    !.incident =
                        [id |-> peer.id, severity |-> r.severity,
                         status |-> IF first THEN "In Progress" ELSE r.status,
                         timestamp |-> d.timestamp,
                         incidentType |-> d.incidentType,
                         latitude |-> d.latitude,
                         description |-> d.description]]
              /\ reports' =
                    IF first /\ reports[peer.id].exists
                      THEN updateDoc(reports, peer.id,
                               [reportState |-> "In Progress", lastViewed |-> now])
                      ELSE reports
    /\ mainUnchanged

\* components/SmartMergeAlert.tsx, lines 40-95, on the second session's page
peerCheckForDuplicates ==
    /\ peer.pc = "open"
    /\ peer.incident.status \notin {"Merged", "Completed"}
    /\ peer.incident.latitude # 0
    /\ peer' = [peer EXCEPT !.candidates = potentialDuplicates(reports, peer.incident)]
    /\ reports' = reports
    /\ mainUnchanged

\* components/SmartMergeAlert.tsx, lines 107-163, on the second session's
\* page; the alert hides after the merge
peerHandleMerge(selectedIds) ==
    LET Selected(c) == c.id \in selectedIds
        selectedCandidates == SelectSeq(peer.candidates, Selected)
        writes == mergeWrites(reports, peer.incident, selectedCandidates, now)
        done == applyWrites(reports, writes, 1, 0)
    IN  /\ peer.pc = "open"
        /\ peer.incident.status \notin {"Merged", "Completed"}
        /\ selectedIds # {}
        /\ selectedIds \subseteq
              {peer.candidates[k].id : k \in 1..Len(peer.candidates)}
        /\ reports' = done.store
        /\ peer' = [peer EXCEPT !.pc = "merged",
                                !.candidates = IF done.ok THEN <<>> ELSE @]
        /\ mainUnchanged

----------------------------------------------------------------------------
(* The collection as the reporter app left it: report i was filed at hour  *)
(* i, anonymously, every report about the same kind of incident, 8 m       *)
(* apart.                                                                  *)

MultiLow == <<"p", ",", "P">>       \* "p,P": two spellings of a Low type

TypeChoices == { <<"G">>, MultiLow }

InitSeverity(i) ==
    CASE i = 1 -> NoSeverity
      [] i = 2 -> "Low"
      [] OTHER -> "Critical"

NewReport(i, type) ==
    [exists |-> TRUE, reportState |-> "New", severity |-> InitSeverity(i),
     timestamp |-> i,
     deadline |-> IF InitSeverity(i) # NoSeverity
                    THEN calculateDeadline(i, InitSeverity(i)) ELSE NoTime,
     isOverdue |-> "unset", incidentType |-> type,
     latitude |-> 1000 + 8 * i,
     description |-> <<i>>, mediaUrls |-> <<i>>,
     mergedInto |-> NoId, mergedAt |-> NoTime, mergedReports |-> {},
     lastViewed |-> NoTime, completedAt |-> NoTime, resolutionTimeHours |-> NoTime,
     resolutionTimeFormatted |-> NoText,
     flagged |-> FALSE, flaggedAt |-> NoTime, flagReason |-> "", flagStatus |-> "",
     isAnonymous |-> TRUE, reporterEmail |-> ""]

FlagReasons == {"false_report", "spam"}

\* the console before any page is open
InitPages ==
    /\ page = "none"
    /\ incident = NoIncident
    /\ pendingSeverity = NoSeverity
    /\ showSeverityModal = FALSE
    /\ candidates = NoCandidates
    /\ isVisible = TRUE
    /\ groups = <<>>
    /\ relatedReports = {}
    /\ currentReport = FALSE
    /\ opened = {}
    /\ failures = 0
    /\ lastOp = Outcome("none", NoId, {}, "ok", NoAlert)
    /\ peer = NoPeer

\* the session before any page is open
InitSession ==
    /\ now = NumReports
    /\ InitPages
    /\ reporters = NoReporters
    /\ call = NoCall

Init ==
    /\ \E type \in TypeChoices : reports = [i \in Ids |-> NewReport(i, type)]
    /\ InitSession

\* one incident's life on the list and detail pages, up to the
\* related-reports merge that ends it
Next ==
    \/ \E id \in Ids : fetchIncident(id)
    \/ fetchIncidents
    \/ handleMarkAsCompleted
    \/ \E reason \in FlagReasons : handleFlagReport(reason)
    \/ fetchRelatedReports
    \/ \E id \in Ids : confirmMerge(id, 0)
    \/ Tick

Spec == Init /\ [][Next]_vars

\* the severity of an incident: derivation on the two pages and the staff
\* member's change of it
NextSeverity ==
    \/ \E id \in Ids : fetchIncident(id)
    \/ fetchIncidents
    \/ \E s \in Severities : handleSeverityChange(s)
    \/ closeSeverityModal
    \/ applySeverityChange
    \/ handleMarkAsCompleted
    \/ Tick

SpecSeverity == Init /\ [][NextSeverity]_vars

----------------------------------------------------------------------------
(* Reconcile-on-read over arbitrary documents: document 1 is any document  *)
(* the collection can hold.                                                *)

MaxDrift == 2

ReconcileTypes == { <<>>, <<"G">>, <<"P">>, MultiLow, <<"P", ";", " ", "C">> }

\* absent, or within MaxDrift hours of what some severity gives report 1
StoredDeadlines ==
    {NoTime} \cup {calculateDeadline(1, severity) + drift :
                      severity \in Severities, drift \in (0 - MaxDrift)..MaxDrift}

\* a stored timestamp with any stored deadline, or no timestamp with no
\* deadline or the deadline of a High report
StoredTimes ==
    {<<1, deadline>> : deadline \in StoredDeadlines}
        \cup {<<NoTime, NoTime>>, <<NoTime, calculateDeadline(1, "High")>>}

AnyReport ==
    {[NewReport(1, type) EXCEPT !.reportState = status, !.severity = severity,
                                !.timestamp = times[1], !.deadline = times[2],
                                !.isOverdue = flag] :
        type \in ReconcileTypes, status \in States,
        severity \in Severities \cup {NoSeverity},
        times \in StoredTimes,
        flag \in {"unset", "true", "false"}}

InitReconcile ==
    /\ \E d \in AnyReport :
          reports = [i \in Ids |-> IF i = 1 THEN d ELSE NewReport(i, <<"G">>)]
    /\ InitSession

NextReconcile ==
    \/ \E id \in Ids : fetchIncident(id)
    \/ fetchIncidents
    \/ Tick

SpecReconcile == InitReconcile /\ [][NextReconcile]_vars

----------------------------------------------------------------------------
(* The three merge entry points against a store that can fail a write.     *)

InitMerge ==
    /\ reports = [i \in Ids |-> NewReport(i, <<"G">>)]
    /\ InitSession

NextMerge ==
    \/ \E id \in Ids : fetchIncident(id)
    \/ handleMarkAsCompleted
    \/ checkForDuplicates
    \/ \E sel \in SUBSET Ids, failAt \in 0..NumReports : handleMerge(sel, failAt)
    \/ fetchAndAnalyzeReports
    \/ \E g \in 1..NumReports, sel \in SUBSET Ids, failAt \in 0..NumReports :
          handleMergeGroup(g, sel, failAt)
    \/ fetchRelatedReports
    \/ \E id \in Ids, failAt \in 0..2 : confirmMerge(id, failAt)

SpecMerge == InitMerge /\ [][NextMerge]_vars

----------------------------------------------------------------------------
(* The staff operations of the detail page while other clients of the      *)
(* store delete reports.                                                   *)

NextEnv ==
    \/ \E id \in Ids : fetchIncident(id)
    \/ \E s \in Severities : handleSeverityChange(s)
    \/ applySeverityChange
    \/ handleMarkAsCompleted
    \/ \E reason \in FlagReasons : handleFlagReport(reason)
    \/ checkForDuplicates
    \/ \E sel \in SUBSET Ids : handleMerge(sel, 0)
    \/ \E id \in Ids : deleteReport(id)

SpecEnv == InitMerge /\ [][NextEnv]_vars

----------------------------------------------------------------------------
(* calculateDeadline called on every representation of a creation          *)
(* timestamp a caller can hand it.                                         *)

MaxCreation == 3

CreationTimestamps ==
    {Raw("undefined", NoTime, ""), Raw("null", NoTime, "")}
    \cup {Raw("Timestamp", t, "") : t \in 0..MaxCreation}
    \cup {Raw("object", t, "") : t \in 1..MaxCreation}     \* { seconds: t }
    \cup {Raw("object", NoTime, "")}                       \* no seconds field
    \cup {Raw("Date", t, "") : t \in 0..MaxCreation}
    \cup {Raw("string", NoTime, text) : text \in DOMAIN DateStrings}
    \cup {Raw("string", NoTime, text) : text \in {"", "not a date", "soon"}}
    \cup {Raw("number", t, "") : t \in {0, MaxCreation}}

calculateDeadlineCall(raw, severity) ==
    /\ call' = Call("calculateDeadline", <<raw, severity>>,
                    calculateDeadlineFrom(raw, severity))
    /\ UNCHANGED <<reports, now, page, incident, pendingSeverity,
                   showSeverityModal, candidates, isVisible, groups,
                   relatedReports, currentReport, opened, failures, lastOp,
                   reporters, peer>>

NextDeadline ==
    \E raw \in CreationTimestamps, severity \in Severities \cup {NoSeverity} :
        calculateDeadlineCall(raw, severity)

SpecDeadline == InitMerge /\ [][NextDeadline]_vars

----------------------------------------------------------------------------
(* Trust events on the reporter records another client created.            *)

ReporterAddresses ==
    {[parent |-> "reporter", email |-> e, reporterEmail |-> ""] : e \in Emails}
    \cup {[parent |-> "users", email |-> e, reporterEmail |-> ""] : e \in Emails}
    \cup {[parent |-> "users", email |-> "", reporterEmail |-> e] : e \in Emails}

StoredReporter(address, reportCount, createdAt) ==
    [exists |-> TRUE, parent |-> address.parent, email |-> address.email,
     reporterEmail |-> address.reporterEmail, reportCount |-> reportCount,
     verifiedReports |-> Undefined, falseReports |-> Undefined,
     trustLevel |-> Undefined, createdAt |-> createdAt, updatedAt |-> NoTime]

AnyReporter ==
    {NoReporter} \cup
    {StoredReporter(a, rc, t) : a \in ReporterAddresses, rc \in {Undefined, 1, 3},
                                t \in {NoTime, NumReports}}

InitTrust ==
    /\ reports = [i \in Ids |-> NewReport(i, <<"G">>)]
    /\ now = TenureHours + NumReports
    /\ InitPages
    /\ \E d \in AnyReporter, second \in BOOLEAN :
          reporters = [r \in ReporterIds |->
              IF r = 1 THEN d
              ELSE IF second
                  THEN StoredReporter([parent |-> "users", email |-> "a@x",
                                       reporterEmail |-> ""], 1, NoTime)
                  ELSE NoReporter]
    /\ call = NoCall

NextTrust ==
    \/ \E e \in Emails \cup {""} : updateReporterTrustOnVerification(e)
    \/ \E e \in Emails \cup {""} : updateReporterTrustOnFalseReport(e)

SpecTrust == InitTrust /\ [][NextTrust]_vars

----------------------------------------------------------------------------
(* checkDescriptionSimilarity called on every pair of descriptions of up   *)
(* to MaxWords words drawn from NumWords different words.                  *)

MaxWords == 4
NumWords == 3

Descriptions == UNION {[1..n -> 1..NumWords] : n \in 0..MaxWords}

InitSimilarity ==
    /\ reports = [i \in Ids |-> NewReport(i, <<"G">>)]
    /\ now = NumReports
    /\ InitPages
    /\ reporters = NoReporters
    /\ \E desc1 \in Descriptions, desc2 \in Descriptions :
          call = Call("checkDescriptionSimilarity", <<desc1, desc2>>, "unset")

checkDescriptionSimilarityCall ==
    /\ call.fn = "checkDescriptionSimilarity"
    /\ call.result = "unset"
    /\ call' = [call EXCEPT !.result =
                   Tri(checkDescriptionSimilarity(call.args[1], call.args[2]))]
    /\ UNCHANGED <<reports, now, page, incident, pendingSeverity,
                   showSeverityModal, candidates, isVisible, groups,
                   relatedReports, currentReport, opened, failures, lastOp,
                   reporters, peer>>

NextSimilarity == checkDescriptionSimilarityCall

SpecSimilarity == InitSimilarity /\ [][NextSimilarity]_vars

----------------------------------------------------------------------------
(* The three duplicate detectors on a pool of reports around report 1:     *)
(* reports 2 and 3 in any status, of either type, at any of five           *)
(* distances north of it, described in words it shares or does not share.  *)

Offsets == {15, 60, 100, 150}

DetectStates == {"New", "Overdue", "Merged"}
DetectTypes == {<<"G">>, <<"P">>}
DetectDescriptions == {<<1, 5>>, <<6, 7>>}

\* a report whose deadline has passed when the session starts
PoolReport(i, status, type, created, latitude, description) ==
    [NewReport(i, type) EXCEPT
        !.reportState = status, !.severity = "High",
        !.timestamp = created, !.deadline = calculateDeadline(created, "High"),
        !.isOverdue = IF status = "Overdue" THEN "true" ELSE "unset",
        !.latitude = latitude, !.description = description]

PoolReports(i) ==
    {PoolReport(i, status, type, i, latitude, description) :
        status \in DetectStates, type \in DetectTypes,
        latitude \in {0} \cup {1000 + offset : offset \in Offsets},
        description \in DetectDescriptions}

InitDetect ==
    /\ \E created \in {1, NumReports + 1} :
       \E pool \in [Ids \ {1} -> UNION {PoolReports(i) : i \in Ids \ {1}}] :
          /\ \A i \in Ids \ {1} : pool[i] \in PoolReports(i)
          /\ reports = [i \in Ids |->
                IF i = 1
                    THEN PoolReport(1, "New", <<"G">>, created, 1000, <<1, 2>>)
                    ELSE pool[i]]
    /\ now = 2 * TickHours
    /\ InitPages
    /\ reporters = NoReporters
    /\ call = NoCall

NextDetect ==
    \/ \E id \in Ids : fetchIncident(id)
    \/ checkForDuplicates
    \/ fetchAndAnalyzeReports
    \/ fetchRelatedReports

SpecDetect == InitDetect /\ [][NextDetect]_vars

----------------------------------------------------------------------------
(* Completion and flagging of reports that have a reporter: report 1 was   *)
(* filed by a@x, report 2 by a@x anonymously, report 3 without an e-mail   *)
(* address.                                                                *)

InitCompletion ==
    /\ reports = [i \in Ids |->
          [NewReport(i, <<"G">>) EXCEPT
              !.isAnonymous = (i = 2),
              !.reporterEmail = IF i = NumReports THEN "" ELSE "a@x"]]
    /\ now = NumReports
    /\ InitPages
    /\ \E d \in AnyReporter :
          reporters = [r \in ReporterIds |-> IF r = 1 THEN d ELSE NoReporter]
    /\ call = NoCall

NextCompletion ==
    \/ \E id \in Ids : fetchIncident(id)
    \/ handleMarkAsCompleted
    \/ \E reason \in FlagReasons : handleFlagReport(reason)
    \/ Tick

SpecCompletion == InitCompletion /\ [][NextCompletion]_vars

----------------------------------------------------------------------------
(* Two staff sessions on the detail pages of the same store.               *)

NextSessions ==
    \/ \E id \in Ids : fetchIncident(id)
    \/ checkForDuplicates
    \/ \E sel \in SUBSET Ids : handleMerge(sel, 0)
    \/ handleMarkAsCompleted
    \/ \E id \in Ids : peerGetDoc(id)
    \/ peerReconcile
    \/ peerFirstView
    \/ peerCheckForDuplicates
    \/ \E sel \in SUBSET Ids : peerHandleMerge(sel)

SpecSessions == InitMerge /\ [][NextSessions]_vars

----------------------------------------------------------------------------
(* Properties                                                              *)

Existing == {i \in Ids : reports[i].exists}

hasEntry(target, source) ==
    \E e \in reports[target].mergedReports : e.id = source

MergeOps == {"handleMerge", "handleMergeGroup", "confirmMerge"}

WriteOps == MergeOps \cup {"applySeverityChange", "handleMarkAsCompleted",
                           "handleFlagReport"}

\* C1 (under Spec): a Completed or Merged incident is never stored with
\* isOverdue true, whatever operations led to the state.
C1_TerminalNeverOverdue ==
    \A i \in Existing :
        reports[i].reportState \in Terminal => reports[i].isOverdue # "true"

\* the patch of the detail view's reconcile applied to document i
reconciled(i) ==
    LET patch == detailUpdates(reports[i], now)
    IN  IF DOMAIN patch = {} THEN reports[i] ELSE updateDoc(reports, i, patch)[i]

\* C2 (under SpecReconcile): reconcile is idempotent: for every stored
\* document, once the fields reconcile writes are applied, reconcile at the
\* same clock writes nothing.
C2_ReconcileIdempotent ==
    \A i \in Existing : DOMAIN detailUpdates(reconciled(i), now) = {}

\* a detail view has reconciled report 1, of a type the catalog rates High,
\* and found it past its deadline: nothing is left to write
C2_Witness ==
    /\ lastOp.op = "fetchIncident"
    /\ lastOp.result = "ok"
    /\ lastOp.target = 1
    /\ reports[lastOp.target].incidentType = <<"G">>
    /\ reports[lastOp.target].severity = "High"
    /\ reports[lastOp.target].reportState = "Overdue"
    /\ reports[lastOp.target].isOverdue = "true"
    /\ DOMAIN detailUpdates(reports[lastOp.target], now) = {}

\* C3 (under SpecSeverity): an incident with a timestamp and a deadline has
\* deadline = timestamp + timeframe(severity).
C3_DeadlineMatchesSeverity ==
    \A i \in Existing :
        /\ reports[i].timestamp # NoTime
        /\ reports[i].deadline # NoTime
        /\ reports[i].severity \in Severities
        => reports[i].deadline
             = reports[i].timestamp + FALLBACK_TIMEFRAMES[reports[i].severity]

\* C4 (under SpecMerge): after a merge that completed without error, from any
\* of the three entry points, the target lists every source, and every
\* source is Merged and points to the target.
C4_MergeReciprocity ==
    lastOp.op \in MergeOps /\ lastOp.result = "ok" =>
        \A source \in lastOp.sources :
            /\ hasEntry(lastOp.target, source)
            /\ reports[source].mergedInto = lastOp.target
            /\ reports[source].reportState = "Merged"

\* the dashboard has merged two duplicates into the primary report of a group
C4_Witness ==
    /\ lastOp.op = "handleMergeGroup"
    /\ lastOp.result = "ok"
    /\ Cardinality(lastOp.sources) = 2
    /\ \A source \in lastOp.sources : reports[source].reportState = "Merged"

\* C5 (under SpecMerge): in every state, also after a merge that failed
\* part-way, a Merged incident with mergedInto = T has an existing T whose
\* mergedReports holds an entry for it.
C5_ReferenceConsistency ==
    \A i \in Existing :
        reports[i].reportState = "Merged" /\ reports[i].mergedInto # NoId =>
            /\ reports[i].mergedInto \in Existing
            /\ hasEntry(reports[i].mergedInto, i)

\* a merge of two sources failed after the first source was written
C5_Witness ==
    /\ lastOp.op = "handleMerge"
    /\ lastOp.result = "failed"
    /\ \E merged, left \in lastOp.sources :
          /\ reports[merged].reportState = "Merged"
          /\ reports[merged].mergedInto = lastOp.target
          /\ reports[left].reportState # "Merged"
          /\ hasEntry(lastOp.target, left)

\* C6 (under SpecMerge): a multi-source merge of which some writes succeeded
\* and another failed shows an outcome that names the sources, never plain
\* success, and leaves each source either untouched or merged.
C6_PartialFailureReported ==
    [][(/\ lastOp' # lastOp
        /\ lastOp'.op \in {"handleMerge", "handleMergeGroup"}
        /\ Cardinality(lastOp'.sources) > 1
        /\ lastOp'.result # "ok"
        /\ reports' # reports)
       => /\ \A source \in lastOp'.sources :
                \E k \in DOMAIN lastOp'.alert.args : lastOp'.alert.args[k] = source
          /\ \A source \in lastOp'.sources :
                \/ reports'[source] = reports[source]
                \/ /\ reports'[source].reportState = "Merged"
                   /\ reports'[source].mergedInto = lastOp'.target]_vars

\* C7 (under SpecEnv): an operation that writes, run when one of its
\* documents no longer exists, ends with a not-found error and has written
\* nothing.
C7_NotFoundWritesNothing ==
    [][(/\ lastOp' # lastOp
        /\ lastOp'.op \in WriteOps
        /\ \E i \in {lastOp'.target} \cup lastOp'.sources : ~reports[i].exists)
       => /\ lastOp'.result = "not-found"
          /\ reports' = reports]_vars

\* C8 (under SpecReconcile, whose every step is an automatic one): no step
\* changes the status of a Completed or Merged incident.
C8_TerminalStatusKept ==
    [][\A i \in Existing :
          reports[i].reportState \in Terminal
              => reports'[i].reportState = reports[i].reportState]_vars

\* the detail view has reconciled a Merged incident that is past its
\* deadline and stored as overdue
C8_Witness ==
    /\ lastOp.op = "fetchIncident"
    /\ lastOp.result = "ok"
    /\ reports[lastOp.target].reportState = "Merged"
    /\ reports[lastOp.target].isOverdue = "true"
    /\ reports[lastOp.target].deadline # NoTime
    /\ now > reports[lastOp.target].deadline

\* C9 (under SpecReconcile): the reconcile of either page leaves a stored
\* severity of Medium, High or Critical as it is.
C9_ElevatedSeverityKept ==
    [][\A i \in Existing :
          reports[i].severity \in {"Medium", "High", "Critical"}
              => reports'[i].severity = reports[i].severity]_vars

\* the list view has reconciled a Medium incident of a type the catalog
\* rates Critical
C9_Witness ==
    /\ lastOp.op = "fetchIncidents"
    /\ reports[1].severity = "Medium"
    /\ reports[1].incidentType = <<"P", ";", " ", "C">>
    /\ determineSeverityFromType(reports[1].incidentType) = "Critical"

\* the highest-ranked of the severities of the trimmed tokens
highestRanked(incidentType) ==
    LET types == split(incidentType)
        severities == {singleTypeSeverity(trim(types[k])) : k \in 1..Len(types)}
    IN  CHOOSE s \in severities :
            \A t \in severities : getSeverityRanking(t) <= getSeverityRanking(s)

\* C10 (under SpecReconcile): for a type of several tokens the derived
\* severity is the highest-ranked of the tokens' severities.
C10_HighestOfTokens ==
    \A i \in Existing :
        Len(split(reports[i].incidentType)) > 1 =>
            determineSeverityFromType(reports[i].incidentType)
                = highestRanked(reports[i].incidentType)

\* the instant a creation timestamp denotes, NoTime when it denotes none
\* (absent, or not parseable as a time)
denotes(raw) ==
    CASE raw.kind \in {"Timestamp", "Date"} -> raw.time
      [] raw.kind = "object" -> raw.time
      [] raw.kind = "string" /\ raw.text \in DOMAIN DateStrings ->
            DateStrings[raw.text]
      [] OTHER -> NoTime

\* C11 (under SpecDeadline): calculateDeadline returns the creation time
\* plus 168/120/72/24 hours for Low/Medium/High/Critical for every valid
\* creation time, and null whenever the creation time is absent or cannot
\* be parsed as a time, an unparseable string included.
C11_DeadlineOrNull ==
    call.fn = "calculateDeadline" =>
        LET raw == call.args[1]
            severity == call.args[2]
        IN  /\ (denotes(raw) # NoTime /\ severity \in Severities) =>
                  call.result = denotes(raw) +
                      (CASE severity = "Low" -> 168
                         [] severity = "Medium" -> 120
                         [] severity = "High" -> 72
                         [] OTHER -> 24)
            /\ denotes(raw) = NoTime => call.result = NoTime

\* C16 (under SpecTrust): after any sequence of verification and
\* false-report events every persisted trustLevel is within 0..100; the
\* +10 bonus of a verification never pushes it above 100.
C16_TrustWithinRange ==
    \A r \in ReporterIds :
        (reporters[r].exists /\ reporters[r].trustLevel # Undefined) =>
            (reporters[r].trustLevel >= 0 /\ reporters[r].trustLevel <= 100)

\* C17 (under SpecTrust): a trust event for an e-mail address that has no
\* reporter record ends with a new record for that address, trustLevel 15
\* after a verification and 5 after a false report, and reports success.
C17_LazyCreation ==
    [][\A e \in Emails :
          (/\ findReporter(reporters, e) = NoId
           /\ call'.fn \in {"updateReporterTrustOnVerification",
                            "updateReporterTrustOnFalseReport"}
           /\ call'.args = <<e>>)
          => /\ call'.result = TRUE
             /\ \E r \in ReporterIds :
                   /\ ~reporters[r].exists
                   /\ reporters'[r].exists
                   /\ reporters'[r].email = e
                   /\ reporters'[r].trustLevel =
                        (IF call'.fn = "updateReporterTrustOnVerification"
                            THEN 15 ELSE 5)]_vars

\* C15 (under SpecSimilarity): description similarity is symmetric: for
\* every pair of descriptions, repeated words and different word counts
\* included, the verdict on (d1, d2) is the verdict on (d2, d1).
C15_SimilaritySymmetric ==
    (call.fn = "checkDescriptionSimilarity" /\ call.result # "unset") =>
        call.result = Tri(checkDescriptionSimilarity(call.args[2], call.args[1]))

\* the candidate predicate of the specification on the open incident and
\* stored report b
isCandidate(a, b) ==
    LET distance == calculateDistance(a.latitude, reports[b].latitude)
    IN  /\ b # a.id
        /\ reports[b].reportState # "Merged"
        /\ \/ distance < 20
           \/ /\ distance <= 100
              /\ \/ reports[b].incidentType = a.incidentType
                 \/ checkDescriptionSimilarity(a.description,
                                               reports[b].description)

\* the reports one scan of the dashboard reads, with coordinates
scanPool == {i \in Ids : /\ reports[i].exists
                         /\ reports[i].reportState \in {"New", "In Progress", "Overdue"}
                         /\ reports[i].latitude # 0}

\* the duplicates the scan lists under primary a ({} when a heads no group)
duplicatesUnder(gs, a) ==
    UNION {{gs[g].duplicates[k].id : k \in 1..Len(gs[g].duplicates)} :
              g \in {h \in 1..Len(gs) : gs[h].primary.id = a}}

\* C12 (under SpecDetect): B is reported as a duplicate candidate of A
\* exactly when B is not A, B is not Merged, and either B is less than 20 m
\* from A (whatever the types and descriptions), or B is within 100 m and
\* has A's type or a similar description: for the related-reports panel of
\* the open incident, and for the report the dashboard's scan treats first.
C12_CandidatePredicate ==
    [][/\ fetchRelatedReports =>
            relatedReports' =
                {b \in Ids : /\ reports[b].exists
                             /\ reports[b].latitude # 0
                             /\ isCandidate(incident, b)}
       /\ (fetchAndAnalyzeReports /\ scanPool # {}) =>
            LET first == CHOOSE a \in scanPool : \A b \in scanPool :
                            \/ reports[a].timestamp < reports[b].timestamp
                            \/ reports[a].timestamp = reports[b].timestamp /\ a <= b
                A == Snapshot(first, reports[first])
            IN  duplicatesUnder(groups', first) =
                    {b \in scanPool : isCandidate(A, b)}]_vars

\* C13 (under SpecDetect): the alert of the open incident A lists exactly
\* the reports the dashboard's scan reads and its pairwise test accepts
\* against A; an Overdue report is a candidate of the one exactly when it
\* is a candidate of the other.
C13_AlertAgreesWithScan ==
    [][checkForDuplicates =>
          {candidates'[k].id : k \in 1..Len(candidates')} =
              {b \in scanPool \ {incident.id} :
                  isDuplicate(incident.incidentType, incident.latitude,
                              incident.description, Snapshot(b, reports[b]))}]_vars

groupDuplicates(g) ==
    {groups[g].duplicates[k].id : k \in 1..Len(groups[g].duplicates)}

\* C14 (under SpecDetect): the groups of one scan are disjoint: a report is
\* a duplicate in at most one group, primary of at most one, never both;
\* every group has a duplicate; a primary was created no later than any of
\* its duplicates.
C14_GroupsDisjoint ==
    \A g \in 1..Len(groups) :
        /\ groupDuplicates(g) # {}
        /\ \A k \in 1..Len(groups[g].duplicates) :
              groups[g].primary.timestamp <= groups[g].duplicates[k].timestamp
        /\ \A h \in 1..Len(groups) :
              /\ groups[g].primary.id \notin groupDuplicates(h)
              /\ h # g => /\ groups[h].primary.id # groups[g].primary.id
                          /\ groupDuplicates(g) \cap groupDuplicates(h) = {}

\* a scan that left out of every group a report its test accepts against a
\* duplicate of some group
C14_Witness ==
    /\ page = "dashboard"
    /\ \E g \in 1..Len(groups) : \E d \in groupDuplicates(g), c \in scanPool :
          /\ \A h \in 1..Len(groups) :
                c # groups[h].primary.id /\ c \notin groupDuplicates(h)
          /\ isDuplicate(reports[d].incidentType, reports[d].latitude,
                         reports[d].description, Snapshot(c, reports[c]))

\* C18 (under Spec): after a successful mark-completed the stored incident
\* is Completed with isOverdue false, completedAt the completion time and
\* resolutionTimeHours the completion time minus its timestamp, also when
\* its deadline has passed and it was Overdue before.
C18_CompletionFields ==
    [][(handleMarkAsCompleted /\ lastOp'.result = "ok") =>
          LET d == reports'[incident.id]
          IN  /\ d.reportState = "Completed"
              /\ d.isOverdue = "false"
              /\ d.completedAt = now
              /\ reports[incident.id].timestamp # NoTime =>
                    d.resolutionTimeHours = now - reports[incident.id].timestamp]_vars

\* an incident completed after its deadline, by the handler, no longer
\* marked overdue
C18_Witness ==
    /\ lastOp.op = "handleMarkAsCompleted"
    /\ lastOp.result = "ok"
    /\ LET d == reports[lastOp.target]
       IN  /\ d.reportState = "Completed"
           /\ d.deadline # NoTime
           /\ d.completedAt > d.deadline
           /\ d.isOverdue = "false"
           /\ d.resolutionTimeHours = d.completedAt - d.timestamp

\* C19 (under Spec): completedAt, resolutionTimeHours and
\* resolutionTimeFormatted change only in a step that takes the incident
\* from a status other than Completed to Completed, and never on an
\* incident that is Merged.
C19_CompletionWrittenOnce ==
    [][\A i \in Ids :
          (\/ reports'[i].completedAt # reports[i].completedAt
           \/ reports'[i].resolutionTimeHours # reports[i].resolutionTimeHours
           \/ reports'[i].resolutionTimeFormatted # reports[i].resolutionTimeFormatted)
          => /\ reports[i].reportState \notin {"Completed", "Merged"}
             /\ reports'[i].reportState = "Completed"]_vars

\* C20 (under SpecReconcile): a view that reconciles a stored non-terminal
\* incident persists status Overdue with isOverdue true when the clock is
\* past the recomputed deadline, and status In Progress with isOverdue
\* false when the stored status was Overdue and the clock is not past it:
\* for the detail view and for the list view.
C20_OverdueTransitions ==
    [][\A i \in Ids :
          ((fetchIncident(i) \/ fetchIncidents) /\ reports[i].exists) =>
              LET d == reports[i]
                  after == reports'[i]
                  deadline == calculateDeadline(d.timestamp, after.severity)
                  past == deadline # NoTime /\ now > deadline
              IN  /\ (d.reportState \notin Terminal /\ past) =>
                        (after.reportState = "Overdue" /\ after.isOverdue = "true")
                  /\ (d.reportState = "Overdue" /\ ~past) =>
                        (after.reportState = "In Progress"
                         /\ after.isOverdue = "false")]_vars

\* C30 (under SpecTrust): for every reporter record, after any sequence of
\* verification and false-report events, verifiedReports + falseReports is
\* at most reportCount, so the accuracy rate never exceeds 1.
C30_CountsWithinReportCount ==
    \A r \in ReporterIds :
        reporters[r].exists =>
            orZero(reporters[r].verifiedReports) + orZero(reporters[r].falseReports)
                <= orZero(reporters[r].reportCount)

\* C28 (under Spec): in every stored state reached through the reconciles of
\* the two views, mark-completed and merge, an incident has status Overdue
\* exactly when its isOverdue is true.
C28_OverdueIffFlag ==
    \A i \in Existing :
        (reports[i].reportState = "Overdue") <=> (reports[i].isOverdue = "true")

\* C26 (under SpecSeverity): a staff severity change is stored only by the
\* confirmation step: selecting a severity or closing the dialog writes
\* nothing; the confirmation writes the new severity with deadline =
\* timestamp + timeframe(new severity) and leaves the status and every
\* other field, and every other incident, as they were.
C26_SeverityChangeFrame ==
    [][/\ ((\E s \in Severities : handleSeverityChange(s)) \/ closeSeverityModal)
            => reports' = reports
       /\ applySeverityChange =>
            \/ lastOp'.result # "ok" /\ reports' = reports
            \/ /\ lastOp'.result = "ok"
               /\ reports' =
                    [reports EXCEPT ![incident.id] =
                        [@ EXCEPT !.severity = pendingSeverity,
                                  !.deadline = reports[incident.id].timestamp +
                                      (CASE pendingSeverity = "Low" -> 168
                                         [] pendingSeverity = "Medium" -> 120
                                         [] pendingSeverity = "High" -> 72
                                         [] OTHER -> 24)]]]_vars

\* a confirmed change to Medium of an incident that is not New any more
C26_Witness ==
    /\ lastOp.op = "applySeverityChange"
    /\ lastOp.result = "ok"
    /\ reports[lastOp.target].severity = "Medium"
    /\ reports[lastOp.target].deadline = reports[lastOp.target].timestamp + 120
    /\ reports[lastOp.target].reportState # "New"

\* C27 (under SpecReconcile): the detail view of an incident stored New
\* whose deadline has not passed stores status In Progress and stamps
\* lastViewed; the view of an incident in any other status never stamps
\* lastViewed, and leaves it In Progress only if it was In Progress or the
\* reconcile took it back from Overdue.
C27_FirstViewOnlyFromNew ==
    [][\A i \in Ids :
          (fetchIncident(i) /\ reports[i].exists) =>
              LET d == reports[i]
                  after == reports'[i]
                  deadline == calculateDeadline(d.timestamp, after.severity)
                  past == deadline # NoTime /\ now > deadline
              IN  /\ (d.reportState = "New" /\ ~past) =>
                        (after.reportState = "In Progress" /\ after.lastViewed = now)
                  /\ d.reportState # "New" =>
                        /\ after.lastViewed = d.lastViewed
                        /\ after.reportState = "In Progress" =>
                              d.reportState \in {"In Progress", "Overdue"}]_vars

\* a New incident seen for the first time, and an Overdue one left unstamped
C27_Witness ==
    /\ lastOp.op = "fetchIncident"
    /\ lastOp.result = "ok"
    /\ reports[lastOp.target].reportState = "In Progress"
    /\ reports[lastOp.target].lastViewed = now
    /\ \E j \in Existing : /\ reports[j].reportState = "Overdue"
                           /\ reports[j].lastViewed = NoTime

\* C29 (under SpecCompletion): mark-completed issues a verification event
\* to the reporter only for an incident that is not anonymous and has a
\* reporter e-mail address, and only when it takes the incident to
\* Completed: repeated on a Completed incident, or run on a Merged one, it
\* does not change the reporter's record again.
C29_OneVerificationPerIncident ==
    [][handleMarkAsCompleted =>
          (reporters' # reporters =>
              /\ hasReporter(reports[incident.id])
              /\ reports[incident.id].reportState \notin {"Completed", "Merged"})]_vars

\* a step of one of the three merge entry points
mergeStep ==
    \/ \E sel \in SUBSET Ids, failAt \in 0..NumReports : handleMerge(sel, failAt)
    \/ \E g \in 1..NumReports, sel \in SUBSET Ids, failAt \in 0..NumReports :
          handleMergeGroup(g, sel, failAt)
    \/ \E id \in Ids, failAt \in 0..2 : confirmMerge(id, failAt)

elements(seq) == {seq[k] : k \in 1..Len(seq)}

\* C25 (under SpecMerge): after a successful merge from any of the three
\* entry points the target's mediaUrls holds every media URL the target
\* had before and every media URL of each merged source.
C25_MediaUrlsKept ==
    [][(mergeStep /\ lastOp'.result = "ok") =>
          LET T == lastOp'.target
          IN  /\ elements(reports[T].mediaUrls) \subseteq elements(reports'[T].mediaUrls)
              /\ \A source \in lastOp'.sources :
                    elements(reports[source].mediaUrls)
                        \subseteq elements(reports'[T].mediaUrls)]_vars

\* the steps of the second session's load that write to the store
peerLoadWrite == peerReconcile \/ peerFirstView

\* C21 (under SpecSessions): however the load of one session's detail page
\* (read, reconcile write, first-view write) interleaves with the other
\* session's mark-completed or merge, a status Completed or Merged that is
\* in the store is not overwritten by a write of the loading session: the
\* status stays as it is and isOverdue is not true afterwards
C21_TerminalSurvivesLoad ==
    [][peerLoadWrite =>
          \A i \in Ids :
              reports[i].reportState \in Terminal =>
                  /\ reports'[i].reportState = reports[i].reportState
                  /\ reports'[i].isOverdue # "true"]_vars

\* the incidents whose mergedReports name the source
targetsOf(source) == {t \in Ids : reports[t].exists /\ hasEntry(t, source)}

\* C22 (under SpecSessions): whatever merges two sessions start from the
\* candidate lists they loaded earlier, an incident is merged into at most
\* one target: its id is in the mergedReports of at most one incident, the
\* one its mergedInto names
C22_MergedIntoOneTarget ==
    \A source \in Ids :
        /\ Cardinality(targetsOf(source)) <= 1
        /\ targetsOf(source) \subseteq {reports[source].mergedInto}

RECURSIVE mergedIntoAfter(_, _)
\* the incident reached from i by following mergedInto n times
mergedIntoAfter(i, n) ==
    IF n = 0 \/ i = NoId THEN i
    ELSE mergedIntoAfter(reports[i].mergedInto, n - 1)

\* C23 (under SpecSessions): in every reachable state the mergedInto
\* references form no cycle, and no incident is merged into itself
C23_MergedIntoAcyclic ==
    \A i \in Ids :
        /\ reports[i].mergedInto # i
        /\ \A n \in 1..NumReports : mergedIntoAfter(i, n) # i

\* C24 (under SpecSessions): the description of a target contains, under
\* its banner, the text of every source its mergedReports record; a later
\* merge removes nothing an earlier one appended
C24_DescriptionKeepsSources ==
    \A t \in Ids : \A e \in reports[t].mergedReports :
        includes(reports[t].description, <<MERGED, FROM, IdWord(e.id)>>)

====
